---- MODULE Spec2Model ----
(***************************************************************************)
(* Provision Dashboard (src/app.py): a Streamlit script that is re-run     *)
(* top to bottom on every user interaction.  A render pass loads the       *)
(* sheet through a 60 second memoising cache, renders the vendor           *)
(* multiselect, filters the frame, renders three KPI metrics and the       *)
(* vessel table.                                                           *)
(*                                                                         *)
(* Timestamps are pairs <<year, mdhm>> ordered lexicographically; NaT is   *)
(* the empty tuple.  Rendered strings are tuples as well, so that a        *)
(* formatted value and a timestamp can be compared.                        *)
(***************************************************************************)
EXTENDS Integers, Sequences, FiniteSets, TLC

VARIABLES
    now,               \* wall clock, in seconds
    cache,             \* st.cache_data entry of load_data: <<>> or <<[value, time]>>
    fetchLog,          \* history: times at which conn.read() returned successfully
    attempts,          \* history: conn.read() calls made by this pass's load_data()
    prevFailed,        \* history: the previous pass ended in the except branch
    widget,            \* session state of the multiselect: <<>> or <<[options, value]>>
    firstRender,       \* history: the multiselect had no session state when this pass began
    pc,                \* position of the running script
    df,                \* script variable df
    unique_vendors,    \* script variable unique_vendors (first-appearance order)
    selected_vendors,  \* script variable selected_vendors
    filtered_df,       \* script variable filtered_df
    out                \* elements rendered by this pass, in order

vars == <<now, cache, fetchLog, attempts, prevFailed, widget, firstRender, pc,
          df, unique_vendors, selected_vendors, filtered_df, out>>

(***************************************************************************)
(* Bounds of the model.                                                    *)
(***************************************************************************)
MaxTime == 61   \* the clock stops here
MaxRows == 3    \* longest frame explored by the frame-level specification

(***************************************************************************)
(* Data.                                                                   *)
(***************************************************************************)
TTL == 60

NaT == <<>>

Vendors == {"A", "B"}

\* what a user-supplied selection may name: the vendors and one that is in no frame
Selectable == Vendors \cup {"Z"}

\* the status the script looks for and one that differs from it only by case
Statuses == {"Pending", "pending"}

Timestamps == {<<1, 2>>, <<2, 1>>}

Rows == [Vendor : Vendors, Order_Status : Statuses, ETA : Timestamps \cup {NaT}]

Row(v, s, e) == [Vendor |-> v, Order_Status |-> s, ETA |-> e]

Frames == UNION {[1..n -> Rows] : n \in 0..MaxRows}

\* What the sheet may hold when it is read: the empty sheet, the two-vendor
\* example, a sheet whose ETA column is empty, a sheet with a gap in ETA and a
\* one-vendor sheet.
SheetContents ==
    { <<>>,
      <<Row("A", "Pending", <<2, 1>>), Row("B", "Done", <<1, 2>>)>>,
      <<Row("A", "Pending", NaT), Row("B", "pending", NaT)>>,
      <<Row("B", "Pending", NaT), Row("A", "Done", <<2, 1>>), Row("B", "Done", <<1, 2>>)>>,
      <<Row("B", "Pending", <<2, 1>>)>> }

(***************************************************************************)
(* pandas operations used by the script.                                   *)
(***************************************************************************)
\* df['Vendor'].unique(): distinct values in order of first appearance
RECURSIVE unique(_)
unique(D) ==
    IF D = <<>> THEN <<>>
    ELSE LET init == unique(SubSeq(D, 1, Len(D) - 1))
             v    == D[Len(D)].Vendor
         IN  IF \E i \in DOMAIN init : init[i] = v THEN init ELSE Append(init, v)

Range(s) == {s[i] : i \in DOMAIN s}

\* variant: the mask is inverted
IsinInverted(r, S) == r.Vendor \notin S

\* df['Vendor'].isin(selected_vendors), as a row test
Isin(r, S) == r.Vendor \in S

\* df[mask]: the rows whose mask is true, in frame order
RECURSIVE BoolIndex(_, _)
BoolIndex(D, S) ==
    IF D = <<>> THEN <<>>
    ELSE LET rest == BoolIndex(SubSeq(D, 1, Len(D) - 1), S)
         IN  IF Isin(D[Len(D)], S) THEN Append(rest, D[Len(D)]) ELSE rest

\* variant: no branch for the empty selection
ApplyFilterAlways(D, S) == BoolIndex(D, S)

\* the filter of lines 59-62
ApplyFilter(D, S) == IF S # {} THEN BoolIndex(D, S) ELSE D

\* variant: the comparison ignores case
IsPendingAnyCase(r) == r.Order_Status \in {"Pending", "pending"}

\* filtered_df['Order_Status'] == 'Pending', as a row test
IsPending(r) == r.Order_Status = "Pending"

\* len(filtered_df[filtered_df['Order_Status'] == 'Pending'])
PendingCount(F) == Cardinality({i \in DOMAIN F : IsPending(F[i])})

\* order of timestamps
TsLeq(a, b) == a[1] < b[1] \/ (a[1] = b[1] /\ a[2] <= b[2])

\* variant: the greatest value instead of the least
EtaMax(F) ==
    LET vals == {F[i].ETA : i \in DOMAIN F} \ {NaT}
    IN  IF vals = {} THEN NaT
        ELSE CHOOSE m \in vals : \A v \in vals : TsLeq(v, m)

\* Series.min() with skipna: the least non-null value, NaT when there is none
EtaMin(F) ==
    LET vals == {F[i].ETA : i \in DOMAIN F} \ {NaT}
    IN  IF vals = {} THEN NaT
        ELSE CHOOSE m \in vals : \A v \in vals : TsLeq(m, v)

\* Timestamp.strftime("%m-%d %H:%M"): month-day hour:minute, the year is not printed
strftime(ts) == <<ts[2]>>

(***************************************************************************)
(* Rendered elements.                                                      *)
(***************************************************************************)
Element(k, l, v) == [kind |-> k, label |-> l, value |-> v]

Success == Element("success", "connected", <<>>)

Failure == Element("error", "connection failed", <<>>)

Multiselect(opts, val) == Element("multiselect", "Select Vendor", <<opts, val>>)

Metric(l, v) == Element("metric", l, <<v>>)

\* the Styler of lines 87-90: the cells of Order_Status equal to 'Pending' are flagged
Highlight(F) == {i \in DOMAIN F : F[i].Order_Status = "Pending"}

Dataframe(F) == Element("dataframe", "Vessel List", <<F, Highlight(F)>>)

Footer == Element("caption", "footer", <<>>)

(***************************************************************************)
(* st.cache_data(ttl=60) around load_data.                                 *)
(***************************************************************************)
\* variant: an entry is still served at the instant of its expiry
FreshInclusive(e, t) == t <= e.time + TTL

\* an entry is served while the clock is strictly before its expiry
Fresh(e, t) == t < e.time + TTL

\* variant: load_data is not memoised
NoCache == FALSE

CacheHit == cache # <<>> /\ Fresh(cache[1], now)

Init ==
    /\ now = 0
    /\ cache = <<>>
    /\ fetchLog = <<>>
    /\ attempts = 0
    /\ prevFailed = FALSE
    /\ widget = <<>>
    /\ firstRender = TRUE
    /\ pc = "load"
    /\ df = <<>>
    /\ unique_vendors = <<>>
    /\ selected_vendors = {}
    /\ filtered_df = <<>>
    /\ out = <<>>

\* time passes between passes and while conn.read() blocks
Tick ==
    /\ pc \in {"load", "fetching"}
    /\ now < MaxTime
    /\ now' = now + 1
    /\ UNCHANGED <<cache, fetchLog, attempts, prevFailed, widget, firstRender, pc,
                   df, unique_vendors, selected_vendors, filtered_df, out>>

\* load_data() answered from the cache: conn.read() is not called
LoadCached ==
    /\ pc = "load"
    /\ CacheHit
    /\ df' = cache[1].value
    /\ out' = Append(out, Success)
    /\ pc' = "sidebar"
    /\ UNCHANGED <<now, cache, fetchLog, attempts, prevFailed, widget, firstRender,
                   unique_vendors, selected_vendors, filtered_df>>

\* load_data() misses (no entry, or an expired one): the body runs, conn.read() is called
LoadMiss ==
    /\ pc = "load"
    /\ ~CacheHit
    /\ attempts' = attempts + 1
    /\ pc' = "fetching"
    /\ UNCHANGED <<now, cache, fetchLog, prevFailed, widget, firstRender,
                   df, unique_vendors, selected_vendors, filtered_df, out>>

\* conn.read() returns the sheet: the value is stored with the time of the store
FetchOk ==
    /\ pc = "fetching"
    /\ \E D \in SheetContents :
          /\ cache' = <<[value |-> D, time |-> now]>>
          /\ df' = D
    /\ fetchLog' = Append(fetchLog, now)
    /\ out' = Append(out, Success)
    /\ pc' = "sidebar"
    /\ UNCHANGED <<now, attempts, prevFailed, widget, firstRender,
                   unique_vendors, selected_vendors, filtered_df>>

\* variant: a failure falls back to the entry that expired
FetchFailServeStale ==
    /\ pc = "fetching"
    /\ out' = Append(out, Failure)
    /\ IF cache # <<>>
       THEN df' = cache[1].value /\ pc' = "sidebar"
       ELSE df' = df /\ pc' = "stopped"
    /\ UNCHANGED <<now, cache, fetchLog, attempts, prevFailed, widget, firstRender,
                   unique_vendors, selected_vendors, filtered_df>>

\* variant: a failure is memoised as an empty frame
FetchFailMemoised ==
    /\ pc = "fetching"
    /\ cache' = <<[value |-> <<>>, time |-> now]>>
    /\ out' = Append(out, Failure)
    /\ pc' = "stopped"
    /\ UNCHANGED <<now, fetchLog, attempts, prevFailed, widget, firstRender,
                   df, unique_vendors, selected_vendors, filtered_df>>

\* conn.read() raises: nothing is stored, the except branch reports and stops the script
FetchFail ==
    /\ pc = "fetching"
    /\ out' = Append(out, Failure)
    /\ pc' = "stopped"
    /\ UNCHANGED <<now, cache, fetchLog, attempts, prevFailed, widget, firstRender,
                   df, unique_vendors, selected_vendors, filtered_df>>

\* variant: nothing is selected by default
DefaultNone(opts) == {}

\* the multiselect's default (default=unique_vendors)
DefaultSelection(opts) == Range(opts)

\* lines 41-46: the options are the distinct vendors; the widget returns its session
\* value, or the default when it has none or when its options changed
Sidebar ==
    /\ pc = "sidebar"
    /\ LET opts == unique(df)
           val  == IF widget # <<>> /\ widget[1].options = opts
                   THEN widget[1].value
                   ELSE DefaultSelection(opts)
       IN  /\ unique_vendors' = opts
           /\ selected_vendors' = val
           /\ widget' = <<[options |-> opts, value |-> val]>>
           /\ out' = Append(out, Multiselect(opts, val))
    /\ pc' = "filter"
    /\ UNCHANGED <<now, cache, fetchLog, attempts, prevFailed, firstRender, df, filtered_df>>

\* lines 59-62
Filter ==
    /\ pc = "filter"
    /\ filtered_df' = ApplyFilter(df, selected_vendors)
    /\ pc' = "metrics"
    /\ UNCHANGED <<now, cache, fetchLog, attempts, prevFailed, widget, firstRender,
                   df, unique_vendors, selected_vendors, out>>

\* lines 66-77: two metrics always; the third when the frame is not empty, and then
\* strftime raises on NaT, which ends the script with an uncaught exception
Metrics ==
    /\ pc = "metrics"
    /\ LET two == out \o << Metric("Total Vessels", Len(filtered_df)),
                            Metric("Pending Orders", PendingCount(filtered_df)) >>
       IN  IF filtered_df = <<>>
           THEN out' = two /\ pc' = "table"
           ELSE IF EtaMin(filtered_df) = NaT
           THEN out' = two /\ pc' = "crashed"
           ELSE /\ out' = Append(two, Metric("Earliest ETA", strftime(EtaMin(filtered_df))))
                /\ pc' = "table"
    /\ UNCHANGED <<now, cache, fetchLog, attempts, prevFailed, widget, firstRender,
                   df, unique_vendors, selected_vendors, filtered_df>>

\* lines 80-105
Table ==
    /\ pc = "table"
    /\ out' = out \o <<Dataframe(filtered_df), Footer>>
    /\ pc' = "done"
    /\ UNCHANGED <<now, cache, fetchLog, attempts, prevFailed, widget, firstRender,
                   df, unique_vendors, selected_vendors, filtered_df>>

\* a new pass starts with a fresh script namespace and an empty page
NewPass ==
    /\ pc' = "load"
    /\ attempts' = 0
    /\ prevFailed' = (pc = "stopped")
    /\ df' = <<>>
    /\ unique_vendors' = <<>>
    /\ selected_vendors' = {}
    /\ filtered_df' = <<>>
    /\ out' = <<>>
    /\ UNCHANGED <<now, cache, fetchLog>>

\* the user reloads, or the page is rerun, after the pass ended
Rerun ==
    /\ pc \in {"done", "stopped", "crashed"}
    /\ NewPass
    /\ firstRender' = (widget = <<>>)
    /\ UNCHANGED widget

\* the user changes the selection in the rendered multiselect, which reruns the script
SelectVendors ==
    /\ pc \in {"done", "crashed"}
    /\ \E S \in SUBSET Range(unique_vendors) :
          /\ S # selected_vendors
          /\ widget' = <<[options |-> unique_vendors, value |-> S]>>
    /\ NewPass
    /\ firstRender' = FALSE

Next ==
    \/ Tick
    \/ LoadCached
    \/ LoadMiss
    \/ FetchOk
    \/ FetchFail
    \/ Sidebar
    \/ Filter
    \/ Metrics
    \/ Table
    \/ Rerun
    \/ SelectVendors

Spec == Init /\ [][Next]_vars

(***************************************************************************)
(* Frame-level specification: the filter, the metrics and the table on     *)
(* every frame of at most MaxRows rows and every selection of vendors,     *)
(* whether or not the vendors occur in the frame.                          *)
(***************************************************************************)
FrameInit ==
    /\ now = 0
    /\ cache = <<>>
    /\ fetchLog = <<>>
    /\ attempts = 0
    /\ prevFailed = FALSE
    /\ widget = <<>>
    /\ firstRender = FALSE
    /\ pc = "filter"
    /\ df \in Frames
    /\ unique_vendors = unique(df)
    /\ selected_vendors \in SUBSET Selectable
    /\ filtered_df = <<>>
    /\ out = <<Success, Multiselect(unique_vendors, selected_vendors)>>

FrameNext ==
    \/ Filter
    \/ Metrics
    \/ Table

FrameSpec == FrameInit /\ [][FrameNext]_vars

(***************************************************************************)
(* Properties.                                                             *)
(***************************************************************************)
FilterRan == pc \in {"metrics", "table", "done", "crashed"}

MetricsRan == pc \in {"table", "done", "crashed"}

\* the values rendered under a metric label by this pass
MetricValues(l) ==
    {out[i].value : i \in {j \in DOMAIN out : out[j].kind = "metric" /\ out[j].label = l}}

Kinds == {out[i].kind : i \in DOMAIN out}

VendorsOf(D) == {D[i].Vendor : i \in DOMAIN D}

NonNullEtas(F) == {F[i].ETA : i \in DOMAIN F} \ {NaT}

\* C1: the filtered frame is a subsequence of the loaded frame (each row taken from a
\* distinct position of the frame, positions increasing), and under a non-empty
\* selection the positions taken are exactly those whose Vendor is selected
C1_FilterIsSubsequence ==
    FilterRan =>
        \E f \in [DOMAIN filtered_df -> DOMAIN df] :
            /\ \A i, j \in DOMAIN filtered_df : i < j => f[i] < f[j]
            /\ \A i \in DOMAIN filtered_df : filtered_df[i] = df[f[i]]
            /\ selected_vendors # {} =>
                  {f[i] : i \in DOMAIN filtered_df}
                      = {k \in DOMAIN df : df[k].Vendor \in selected_vendors}

C1_Witness ==
    /\ pc = "metrics"
    /\ selected_vendors \ VendorsOf(df) # {}
    /\ selected_vendors \cap VendorsOf(df) # {}
    /\ Len(filtered_df) = 2
    /\ Len(df) = 3
    /\ df[2].Vendor \notin selected_vendors

\* C2: under the empty selection the filtered frame is the loaded frame
C2_EmptySelectionIsIdentity ==
    (FilterRan /\ selected_vendors = {}) => filtered_df = df

C2_Witness ==
    /\ pc = "metrics"
    /\ selected_vendors = {}
    /\ Len(df) = 2
    /\ filtered_df = df

\* C3: while an entry younger than 60 is cached, load_data() returns it without
\* calling conn.read(); successful reads are at least 60 apart
C3_OneFetchPerWindow ==
    /\ [](\A i, j \in DOMAIN fetchLog : i < j => fetchLog[j] - fetchLog[i] >= 60)
    /\ [][(/\ pc = "load"
           /\ pc' # "load"
           /\ cache # <<>>
           /\ now < cache[1].time + 60)
          => (/\ pc' = "sidebar"
              /\ df' = cache[1].value
              /\ attempts' = 0
              /\ cache' = cache
              /\ fetchLog' = fetchLog)]_vars

C3_Witness ==
    /\ pc = "sidebar"
    /\ attempts = 0
    /\ cache # <<>>
    /\ now = cache[1].time + 59
    /\ df = cache[1].value
    /\ df # <<>>

\* C4: the frame load_data() returns was read less than 60 ago, and a call at or
\* after the expiry of the entry does not return it but calls conn.read()
C4_NeverServedStale ==
    /\ [](pc = "sidebar" =>
            /\ cache # <<>>
            /\ df = cache[1].value
            /\ now - cache[1].time < 60)
    /\ [][(/\ pc = "load"
           /\ pc' # "load"
           /\ cache # <<>>
           /\ now >= cache[1].time + 60)
          => (pc' = "fetching" /\ attempts' = 1)]_vars

C4_Witness ==
    /\ pc = "sidebar"
    /\ attempts = 1
    /\ Len(fetchLog) = 2
    /\ cache[1].time = now

\* C5: a pass whose read failed shows the failure message and nothing else, binds no
\* frame, and goes no further
C5_FailureHalts ==
    /\ []("error" \in Kinds =>
            /\ pc = "stopped"
            /\ out = <<Failure>>
            /\ df = <<>>
            /\ filtered_df = <<>>)
    /\ [][pc = "fetching" /\ pc' = "stopped" => "error" \in {out'[i].kind : i \in DOMAIN out'}]_vars
    /\ [][pc = "fetching" /\ pc' \notin {"fetching", "stopped"} => out' = <<Success>>]_vars
    /\ [][pc = "stopped" => (pc' = "stopped" /\ out' = out) \/ (pc' = "load" /\ out' = <<>>)]_vars

C5_Witness ==
    /\ pc = "stopped"
    /\ cache # <<>>
    /\ cache[1].value # <<>>
    /\ out = <<Failure>>

\* C6: a non-empty filtered frame whose ETAs are all null is rendered without failure:
\* total and pending shown, no Earliest ETA metric, the table reached
C6_AllNullEtaRenders ==
    (MetricsRan /\ filtered_df # <<>> /\ NonNullEtas(filtered_df) = {}) =>
        /\ pc \in {"table", "done"}
        /\ MetricValues("Total Vessels") # {}
        /\ MetricValues("Pending Orders") # {}
        /\ MetricValues("Earliest ETA") = {}

\* C7: Total Vessels is the row count of the filtered frame, Pending Orders the number
\* of its rows whose Order_Status is exactly "Pending", pending <= total, and the
\* empty frame shows 0, 0 and no Earliest ETA
C7_Counts ==
    MetricsRan =>
        LET pending == Cardinality({i \in DOMAIN filtered_df :
                                       filtered_df[i].Order_Status = "Pending"})
        IN  /\ MetricValues("Total Vessels") = {<<Len(filtered_df)>>}
            /\ MetricValues("Pending Orders") = {<<pending>>}
            /\ pending <= Len(filtered_df)
            /\ filtered_df = <<>> =>
                  /\ MetricValues("Total Vessels") = {<<0>>}
                  /\ MetricValues("Pending Orders") = {<<0>>}
                  /\ MetricValues("Earliest ETA") = {}

C7_Witness ==
    /\ pc = "table"
    /\ Len(filtered_df) = 3
    /\ \E i, j \in DOMAIN filtered_df :
          /\ filtered_df[i].Order_Status = "Pending"
          /\ filtered_df[j].Order_Status = "pending"
    /\ MetricValues("Pending Orders") = {<<1>>}

\* C8 as stated: the Earliest ETA metric is the least non-null ETA of the filtered frame
C8_EarliestIsMinimum ==
    (MetricsRan /\ NonNullEtas(filtered_df) # {}) =>
        \E m \in NonNullEtas(filtered_df) :
            /\ \A v \in NonNullEtas(filtered_df) : TsLeq(m, v)
            /\ MetricValues("Earliest ETA") = {<<m>>}

\* C8 amended: the Earliest ETA metric is the month-day hour:minute rendering, without
\* the year, of the least non-null ETA of the filtered frame
C8_EarliestIsFormattedMinimum ==
    (MetricsRan /\ NonNullEtas(filtered_df) # {}) =>
        \E m \in NonNullEtas(filtered_df) :
            /\ \A v \in NonNullEtas(filtered_df) : TsLeq(m, v)
            /\ MetricValues("Earliest ETA") = {<<strftime(m)>>}

C8_Witness ==
    /\ pc = "table"
    /\ \E i \in DOMAIN filtered_df : filtered_df[i].ETA = NaT
    /\ NonNullEtas(df) = {<<1, 2>>, <<2, 1>>}
    /\ NonNullEtas(filtered_df) = {<<2, 1>>}
    /\ MetricValues("Earliest ETA") = {<<(<<1>>)>>}

\* C9: on the first render the options are the distinct vendors of the frame, all of
\* them are selected, the filtered frame is the frame and Total Vessels is its length
C9_FirstRenderShowsAll ==
    firstRender =>
        /\ pc \in {"filter", "metrics", "table", "done", "crashed"} =>
              /\ Range(unique_vendors) = VendorsOf(df)
              /\ \A i, j \in DOMAIN unique_vendors :
                    unique_vendors[i] = unique_vendors[j] => i = j
              /\ selected_vendors = VendorsOf(df)
              /\ out[Len(out)].kind = "multiselect" =>
                    out[Len(out)].value = <<unique_vendors, VendorsOf(df)>>
        /\ FilterRan => filtered_df = df
        /\ MetricsRan => MetricValues("Total Vessels") = {<<Len(df)>>}

C9_Witness ==
    /\ firstRender
    /\ pc = "done"
    /\ Len(df) = 3
    /\ selected_vendors = {"A", "B"}

\* C10: load_data() calls conn.read() at most once; a failed read stores nothing; the
\* call of the pass after a failed one calls conn.read() again
C10_FailureNotMemoised ==
    /\ [](attempts <= 1)
    /\ [][pc = "fetching" /\ pc' = "stopped" => cache' = cache /\ fetchLog' = fetchLog]_vars
    /\ [][(prevFailed /\ pc = "load" /\ pc' # "load")
          => (pc' = "fetching" /\ attempts' = 1)]_vars

C10_Witness ==
    /\ prevFailed
    /\ pc = "sidebar"
    /\ attempts = 1
    /\ fetchLog = <<now>>
    /\ now < 60

====
